---- MODULE Spec2Model ----
(***************************************************************************)
(* Route guard of the dashboard (src/middleware.ts).                       *)
(*                                                                         *)
(* One guard invocation handles one navigation request.  Its inputs are    *)
(* the request path, the access_token and refresh_token cookies the        *)
(* browser sends, the clock, the static navigation table and the answer    *)
(* of the backend's refresh endpoint.  Its result is a response: continue  *)
(* (NextResponse.next) or a redirect, together with cookie writes.         *)
(***************************************************************************)
EXTENDS Integers, Sequences, FiniteSets, TLC

VARIABLES navItems, jar, now, inv, perm, chain, doc, cb

vars == <<navItems, jar, now, inv, perm, chain, doc, cb>>

(***************************************************************************)
(* Bounds of the model.                                                    *)
(***************************************************************************)
MaxExp == 3
MaxNow == 2000
MaxNavItems == 2
MaxPerms == 2
MaxRoles == 2
MaxHops == 3
MaxTokenLen == 2
MaxTicks == 11
MaxCalls == 2

(***************************************************************************)
(* Values.                                                                 *)
(***************************************************************************)
None == "none"

zaloLinkPath == "/dashboard/link-account"

publicPaths == {"/login"}

LandingPaths == {"/", "/login", "/dashboard"}

\* URLs of application pages, the ones the navigation table lists.
NavUrls == {"/statistic/debts", "/debt/manage"}

\* Paths a browser may request: the guard's special paths, the pages of the
\* table, a page outside the table, and a non-public path under /login.
Paths == LandingPaths \cup {zaloLinkPath} \cup NavUrls \cup {"/profile", "/login/help"}

RoleNames == {"admin", "user-cong-no"}

\* An item of the navigation table: {url, roles?}.  hasRoles = FALSE is an
\* item without a roles field.
NavItemChoices ==
    { [url |-> "/statistic/debts", hasRoles |-> TRUE,  roles |-> {"user-cong-no"}],
      [url |-> "/debt/manage",     hasRoles |-> TRUE,  roles |-> {"admin"}],
      [url |-> "/debt/manage",     hasRoles |-> FALSE, roles |-> {}] }

SeqsUpTo(S, n) == UNION { [1..k -> S] : k \in 0..n }

\* The tables: every sequence of at most MaxNavItems items, cut at any
\* position into two groups (a group may be empty).
NavTables ==
    UNION { { << [items |-> SubSeq(s, 1, k)], [items |-> SubSeq(s, k + 1, Len(s))] >> :
                k \in 0..Len(s) } : s \in SeqsUpTo(NavItemChoices, MaxNavItems) }

\* The exp claim of a payload: absent, a string, or a number.
ExpClaims ==
    { [t |-> "absent", v |-> 0], [t |-> "string", v |-> 0] }
    \cup { [t |-> "number", v |-> n] : n \in {-1, 0} \cup (2..MaxExp) }

\* The roles claim: absent, an array of role descriptors (by their names), or
\* an array holding an element that cannot be mapped (null).
RolesClaims ==
    { [t |-> "absent", names |-> {}], [t |-> "unmappable", names |-> {}] }
    \cup { [t |-> "array", names |-> {r}] : r \in RoleNames }

\* The zaloLinkStatus claim: absent or a number.
ZaloClaims ==
    { [t |-> "absent", v |-> 0] } \cup { [t |-> "number", v |-> n] : n \in 1..2 }

\* The payloads: every combination of claims under an exp that is a positive
\* number; under any other exp, the bare payload and the payload of a user
\* with a role and the link-error status.
Payloads ==
    { p \in [exp : ExpClaims, roles : RolesClaims, zaloLinkStatus : ZaloClaims] :
        \/ p.exp.t = "number" /\ p.exp.v > 0
        \/ p.roles.t = "absent" /\ p.zaloLinkStatus.t = "absent"
        \/ /\ p.roles = [t |-> "array", names |-> {"user-cong-no"}]
           /\ p.zaloLinkStatus = [t |-> "number", v |-> 2] }

NoPayload ==
    [exp |-> [t |-> "absent", v |-> 0], roles |-> [t |-> "absent", names |-> {}],
     zaloLinkStatus |-> [t |-> "absent", v |-> 0]]

\* No access_token cookie.
NoToken == [seg |-> "nocookie", payload |-> NoPayload]

\* Token strings: seg tells what the middle segment is.
Tokens ==
    { [seg |-> "ok", payload |-> p] : p \in Payloads }
    \cup { [seg |-> s, payload |-> NoPayload] : s \in {"missing", "badbase64", "badjson"} }

\* Tokens the backend hands out on refresh.
FreshToken ==
    [seg |-> "ok",
     payload |-> [exp |-> [t |-> "number", v |-> MaxExp],
                  roles |-> [t |-> "array", names |-> {"user-cong-no"}],
                  zaloLinkStatus |-> [t |-> "number", v |-> 2]]]

\* Answers of POST /auth/refresh.
RefreshResults ==
    { [t |-> "throws",  access_token |-> NoToken, refresh_token |-> None],
      [t |-> "notok",   access_token |-> NoToken, refresh_token |-> None],
      [t |-> "badbody", access_token |-> NoToken, refresh_token |-> None],
      [t |-> "ok",      access_token |-> NoToken, refresh_token |-> "rt2"],
      [t |-> "ok",      access_token |-> FreshToken, refresh_token |-> None],
      [t |-> "ok",      access_token |-> FreshToken, refresh_token |-> "rt2"] }

NoResult == [t |-> "none", access_token |-> NoToken, refresh_token |-> None]


(***************************************************************************)
(* Responses.  A response is NextResponse.next() or a redirect, with the   *)
(* writes it makes to the two cookies.  callbackUrl holds the path of the  *)
(* request whose href the guard passes on.                                 *)
(***************************************************************************)
KeepAccess == [op |-> "keep", value |-> NoToken]

KeepRefresh == [op |-> "keep", value |-> None]

NoResponse ==
    [kind |-> "none", location |-> None, callbackUrl |-> None,
     access |-> KeepAccess, refresh |-> KeepRefresh]

\* A slip of the plain continue: it clears the access_token cookie.
Continue_ClearAccess ==
    [kind |-> "next", location |-> None, callbackUrl |-> None,
     access |-> [op |-> "delete", value |-> NoToken], refresh |-> KeepRefresh]

\* NextResponse.next()
Continue ==
    [kind |-> "next", location |-> None, callbackUrl |-> None,
     access |-> KeepAccess, refresh |-> KeepRefresh]

\* NextResponse.redirect(new URL(url, request.url))
Redirect(url) ==
    [kind |-> "redirect", location |-> url, callbackUrl |-> None,
     access |-> KeepAccess, refresh |-> KeepRefresh]

(***************************************************************************)
(* The helpers over the navigation table.  userRoles and an item's roles   *)
(* are arrays the code only tests for membership, modelled as sets.        *)
(***************************************************************************)
hasRole(userRoles, requiredRoles) ==
    \E role \in requiredRoles : role \in userRoles

ItemOpen(userRoles, item) ==
    ~item.hasRoles \/ hasRole(userRoles, item.roles)

RECURSIVE FirstInItems(_, _, _)
FirstInItems(items, i, userRoles) ==
    IF i > Len(items) THEN None
    ELSE IF ItemOpen(userRoles, items[i]) THEN items[i].url
    ELSE FirstInItems(items, i + 1, userRoles)

RECURSIVE FirstInGroups(_, _, _)
FirstInGroups(groups, g, userRoles) ==
    IF g > Len(groups) THEN None
    ELSE LET url == FirstInItems(groups[g].items, 1, userRoles)
         IN  IF url # None THEN url ELSE FirstInGroups(groups, g + 1, userRoles)

\* A slip of getFirstAccessibleUrl: only the first group is scanned.
getFirstAccessibleUrl_FirstGroup(userRoles) ==
    IF Len(navItems) = 0 THEN None
    ELSE FirstInItems(navItems[1].items, 1, userRoles)

\* null is None
getFirstAccessibleUrl(userRoles) ==
    FirstInGroups(navItems, 1, userRoles)

\* A slip of isAccessible: the first item with the url decides.
isAccessible_FirstMatch(userRoles, url) ==
    \E g \in 1..Len(navItems) :
        \E i \in 1..Len(navItems[g].items) :
            /\ navItems[g].items[i].url = url
            /\ ItemOpen(userRoles, navItems[g].items[i])
            /\ \A h \in 1..Len(navItems) :
                  \A j \in 1..Len(navItems[h].items) :
                      navItems[h].items[j].url = url
                          => (h > g \/ (h = g /\ j >= i))

isAccessible(userRoles, url) ==
    \E g \in 1..Len(navItems) :
        \E i \in 1..Len(navItems[g].items) :
            /\ navItems[g].items[i].url = url
            /\ ItemOpen(userRoles, navItems[g].items[i])

\* navItems.flatMap(g => g.items.map(i => i.url)), tested with includes
allUrls ==
    UNION { { navItems[g].items[i].url : i \in 1..Len(navItems[g].items) } :
              g \in 1..Len(navItems) }


(***************************************************************************)
(* The decode block of the guard.  DecodeBlock returns the values of       *)
(* isValid, userRoles and zaloLinkStatus after the block, and whether its  *)
(* catch clause ran.                                                       *)
(***************************************************************************)
\* JSON.parse(base64UrlDecode(token.split('.')[1])) returns a payload.
Decodes(token) == token.seg = "ok"

\* Slips of the expiry test: an inclusive comparison; seconds compared with
\* milliseconds; an absent exp accepted (as getUserFromToken does).
ExpiryCheck_Inclusive(exp, at) ==
    /\ exp.t = "number"
    /\ exp.v > 0
    /\ at <= exp.v * 1000

ExpiryCheck_UnitSlip(exp, at) ==
    /\ exp.t = "number"
    /\ exp.v > 0
    /\ (at \div 1000) < exp.v * 1000

ExpiryCheck_AbsentOk(exp, at) ==
    \/ exp.t = "absent"
    \/ /\ exp.t = "number"
       /\ exp.v > 0
       /\ at < exp.v * 1000

\* exp && typeof exp === 'number' && exp > 0, then Date.now() < exp * 1000
ExpiryCheck(exp, at) ==
    /\ exp.t = "number"
    /\ exp.v # 0
    /\ exp.v > 0
    /\ at < exp.v * 1000

\* typeof payload.zaloLinkStatus === 'number' ? payload.zaloLinkStatus : 0
LinkStatusOf(payload) ==
    IF payload.zaloLinkStatus.t = "number" THEN payload.zaloLinkStatus.v ELSE 0

Undecoded == [isValid |-> FALSE, userRoles |-> {}, zaloLinkStatus |-> 0, threw |-> FALSE]

DecodeBlock(token, at) ==
    IF token = NoToken THEN Undecoded
    ELSE IF ~Decodes(token) THEN [Undecoded EXCEPT !.threw = TRUE]
    ELSE LET payload == token.payload
             isValid == ExpiryCheck(payload.exp, at)
         IN  IF payload.roles.t = "unmappable"
             THEN \* roles.map throws after isValid was assigned
                  [isValid |-> isValid, userRoles |-> {}, zaloLinkStatus |-> 0,
                   threw |-> TRUE]
             ELSE [isValid |-> isValid,
                   userRoles |-> IF payload.roles.t = "array"
                                 THEN payload.roles.names ELSE {},
                   zaloLinkStatus |-> LinkStatusOf(payload),
                   threw |-> FALSE]


(***************************************************************************)
(* The branches of the guard after the decode block, in the code's order.  *)
(***************************************************************************)
\* A slip of the link-status override: the link page redirects to itself.
LinkOverride_Always(pathname) == Redirect(zaloLinkPath)

\* isValid && zaloLinkStatus === 2
LinkOverride(pathname) ==
    IF pathname # zaloLinkPath THEN Redirect(zaloLinkPath) ELSE Continue

\* pathname.startsWith('/login'), over the paths of the model
StartsWithLogin(pathname) == pathname \in {"/login", "/login/help"}

\* A slip of the forced logout: the refresh_token cookie is left in place.
LoginRedirect_KeepRefresh(pathname) ==
    [kind |-> "redirect", location |-> "/login",
     callbackUrl |-> IF ~StartsWithLogin(pathname) THEN pathname ELSE None,
     access |-> [op |-> "delete", value |-> NoToken],
     refresh |-> KeepRefresh]

\* The forced logout: redirect to /login, both cookies deleted.
LoginRedirect(pathname) ==
    [kind |-> "redirect", location |-> "/login",
     callbackUrl |-> IF ~StartsWithLogin(pathname) THEN pathname ELSE None,
     access |-> [op |-> "delete", value |-> NoToken],
     refresh |-> [op |-> "delete", value |-> None]]

\* A slip of the refresh success: the new refresh token is not stored.
RefreshSuccess_DropRefresh(data) ==
    [kind |-> "next", location |-> None, callbackUrl |-> None,
     access |-> [op |-> "set", value |-> data.access_token],
     refresh |-> KeepRefresh]

\* The response of a refresh that returned data.access_token.
RefreshSuccess(data) ==
    [kind |-> "next", location |-> None, callbackUrl |-> None,
     access |-> [op |-> "set", value |-> data.access_token],
     refresh |-> IF data.refresh_token # None
                 THEN [op |-> "set", value |-> data.refresh_token]
                 ELSE KeepRefresh]

\* An exception that leaves the guard.
Escaped ==
    [kind |-> "error", location |-> None, callbackUrl |-> None,
     access |-> KeepAccess, refresh |-> KeepRefresh]

\* A slip of the refresh success: the link-status override is applied to
\* the refreshed token before the request continues.
AfterRefresh_Recheck(result, pathname) ==
    IF result.t = "ok" /\ result.access_token # NoToken
    THEN IF /\ result.access_token.payload.zaloLinkStatus = [t |-> "number", v |-> 2]
            /\ pathname # zaloLinkPath
         THEN [RefreshSuccess(result) EXCEPT !.kind = "redirect",
                                             !.location = zaloLinkPath]
         ELSE RefreshSuccess(result)
    ELSE LoginRedirect(pathname)

\* A slip of the refresh: no try around the call, so a network error or an
\* unreadable body leaves the guard as an exception.
AfterRefresh_NoCatch(result, pathname) ==
    IF result.t \in {"throws", "badbody"} THEN Escaped
    ELSE IF result.t = "ok" /\ result.access_token # NoToken
    THEN RefreshSuccess(result)
    ELSE LoginRedirect(pathname)

\* What the guard returns once the refresh call has settled.
AfterRefresh(result, pathname) ==
    IF result.t = "ok" /\ result.access_token # NoToken
    THEN RefreshSuccess(result)
    ELSE LoginRedirect(pathname)

\* A slip of the authorization check: with no accessible item, the denied
\* path is sent to /login instead of falling through.
AuthorizationCheck_Deny(userRoles, pathname) ==
    IF pathname \in allUrls /\ ~isAccessible(userRoles, pathname)
    THEN IF getFirstAccessibleUrl(userRoles) # None
         THEN Redirect(getFirstAccessibleUrl(userRoles))
         ELSE Redirect("/login")
    ELSE Continue

\* allUrls.includes(pathname) && !isAccessible(userRoles, pathname)
AuthorizationCheck(userRoles, pathname) ==
    IF /\ pathname \in allUrls
       /\ ~isAccessible(userRoles, pathname)
       /\ getFirstAccessibleUrl(userRoles) # None
    THEN Redirect(getFirstAccessibleUrl(userRoles))
    ELSE Continue

\* A slip of the landing redirect: it does not ask for a valid session.
LandingRedirects_AnySession(d, pathname) ==
    /\ pathname \in LandingPaths
    /\ getFirstAccessibleUrl(d.userRoles) # None

\* isValid && pathname is '/', '/login' or '/dashboard', and firstUrl is set
LandingRedirects(d, pathname) ==
    /\ d.isValid
    /\ pathname \in LandingPaths
    /\ getFirstAccessibleUrl(d.userRoles) # None

\* A slip of the branch order: the invalid-session recovery runs before the
\* public passthrough, so /login itself triggers a refresh call.
SyncPart_RefreshFirst(d, pathname, refreshToken) ==
    IF d.isValid /\ d.zaloLinkStatus = 2
    THEN [pc |-> "done", resp |-> LinkOverride(pathname)]
    ELSE IF d.isValid /\ pathname = zaloLinkPath
    THEN [pc |-> "done", resp |-> Continue]
    ELSE IF LandingRedirects(d, pathname)
    THEN [pc |-> "done", resp |-> Redirect(getFirstAccessibleUrl(d.userRoles))]
    ELSE IF ~d.isValid
    THEN IF refreshToken # None
         THEN [pc |-> "fetch", resp |-> NoResponse]
         ELSE [pc |-> "done", resp |-> LoginRedirect(pathname)]
    ELSE IF pathname \in publicPaths
    THEN [pc |-> "done", resp |-> Continue]
    ELSE [pc |-> "done", resp |-> AuthorizationCheck(d.userRoles, pathname)]

\* The guard up to its first return or to the refresh call: pc "done" with
\* the response, or pc "fetch" when the refresh call is issued.
SyncPart(d, pathname, refreshToken) ==
    IF d.isValid /\ d.zaloLinkStatus = 2
    THEN [pc |-> "done", resp |-> LinkOverride(pathname)]
    ELSE IF d.isValid /\ pathname = zaloLinkPath
    THEN [pc |-> "done", resp |-> Continue]
    ELSE IF LandingRedirects(d, pathname)
    THEN [pc |-> "done", resp |-> Redirect(getFirstAccessibleUrl(d.userRoles))]
    ELSE IF pathname \in publicPaths
    THEN [pc |-> "done", resp |-> Continue]
    ELSE IF ~d.isValid
    THEN IF refreshToken # None
         THEN [pc |-> "fetch", resp |-> NoResponse]
         ELSE [pc |-> "done", resp |-> LoginRedirect(pathname)]
    ELSE [pc |-> "done", resp |-> AuthorizationCheck(d.userRoles, pathname)]

(***************************************************************************)
(* Permission hooks (src/hooks/useDynamicPermission.ts and                 *)
(* src/hooks/usePermission.ts).  A role name, a department slug and a      *)
(* permission name are strings over words and hyphens; each is the         *)
(* sequence of its hyphen-separated words, so that "user-cong-no" is       *)
(* <<"user", "cong", "no">>.  The empty sequence is the empty string,      *)
(* which a check treats like an absent field (both are falsy).             *)
(***************************************************************************)
Absent == <<>>

NoAction == ""

RoleChoices ==
    { <<"admin">>, <<"manager">>, <<"manager", "cong", "no">>,
      <<"user", "cong", "no">>, <<"lead", "cong", "no">> }

DepartmentChoices == { <<"cong", "no">> }

Slugs == { <<"cong", "no">>, <<"no">> }

Actions == { "read", "update" }

\* Permission entries as the backend sends them: id tells apart two entries
\* of one (name, action).
PermissionChoices ==
    { [id |-> 1, name |-> <<"cong", "no">>, action |-> "read"],
      [id |-> 2, name |-> <<"cong", "no">>, action |-> "read"],
      [id |-> 3, name |-> <<"cong", "no">>, action |-> "update"] }

SetsUpTo(S, n) == { T \in SUBSET S : Cardinality(T) <= n }

\* user.permissions: undefined, or a list.
NoPermissions == [defined |-> FALSE, list |-> <<>>]

PermissionLists ==
    {NoPermissions}
        \cup { [defined |-> TRUE, list |-> l] :
                 l \in SeqsUpTo(PermissionChoices, MaxPerms) }

\* The user of AuthContext: null, or a user with roles, departments and
\* permissions.
NoUser ==
    [present |-> FALSE, roles |-> {}, departments |-> {},
     permissions |-> NoPermissions]

Users ==
    { [present |-> TRUE, roles |-> r, departments |-> d, permissions |-> ps] :
        r \in SetsUpTo(RoleChoices, MaxRoles),
        d \in SUBSET DepartmentChoices,
        ps \in PermissionLists }

\* requireAnyRole: undefined, or a list of role names (the empty list too).
NoAnyRole == [defined |-> FALSE, roles |-> {}]

AnyRoleChoices ==
    { NoAnyRole,
      [defined |-> TRUE, roles |-> {}],
      [defined |-> TRUE, roles |-> {<<"manager">>, <<"user", "cong", "no">>}] }

EmptyCheck ==
    [departmentSlug |-> Absent, action |-> NoAction, requireAdmin |-> FALSE,
     requireManager |-> FALSE, requireSpecificRole |-> Absent,
     requireAnyRole |-> NoAnyRole]

Checks ==
    { [departmentSlug |-> s, action |-> a, requireAdmin |-> ra,
       requireManager |-> rm, requireSpecificRole |-> rs,
       requireAnyRole |-> ry] :
        s \in Slugs \cup {Absent},
        a \in Actions \cup {NoAction},
        ra \in BOOLEAN, rm \in BOOLEAN,
        rs \in {Absent, <<"manager", "cong", "no">>},
        ry \in AnyRoleChoices }

\* role.endsWith(`-${slug}`): the role name goes on past a hyphen into the
\* words of the slug.
EndsWithSlug(role, slug) ==
    /\ Len(role) > Len(slug)
    /\ SubSeq(role, Len(role) - Len(slug) + 1, Len(role)) = slug

\* role.startsWith("manager-")
StartsWithManager(role) == Len(role) >= 2 /\ role[1] = "manager"

\* The key of the deduplication map: `${name}:${action}`.
PermissionKey(p) == p.name \o <<":", p.action>>

\* A map that sets every entry: a key keeps its place and takes the later
\* value.
RECURSIVE UniqueMap_Overwrite(_, _)
UniqueMap_Overwrite(list, kept) ==
    IF list = <<>> THEN kept
    ELSE LET p == Head(list)
         IN  UniqueMap_Overwrite(Tail(list),
                 IF \E i \in 1..Len(kept) : PermissionKey(kept[i]) = PermissionKey(p)
                 THEN [i \in 1..Len(kept) |->
                         IF PermissionKey(kept[i]) = PermissionKey(p)
                         THEN p ELSE kept[i]]
                 ELSE Append(kept, p))

\* uniqueMap after the forEach, in insertion order: an entry is set only
\* when its key is not in the map yet.
RECURSIVE UniqueMap(_, _)
UniqueMap(list, kept) ==
    IF list = <<>> THEN kept
    ELSE LET p == Head(list)
         IN  UniqueMap(Tail(list),
                 IF \E i \in 1..Len(kept) : PermissionKey(kept[i]) = PermissionKey(p)
                 THEN kept
                 ELSE Append(kept, p))

\* useDynamicPermission's memoized permission snapshot.
userPermissions_KeepLast(user) ==
    IF ~user.present \/ ~user.permissions.defined THEN <<>>
    ELSE UniqueMap_Overwrite(user.permissions.list, <<>>)

userPermissions(user) ==
    IF ~user.present \/ ~user.permissions.defined THEN <<>>
    ELSE UniqueMap(user.permissions.list, <<>>)

\* usePermission's snapshot, computed on each call.
getUserPermissions(user) ==
    IF ~user.present \/ ~user.permissions.defined THEN <<>>
    ELSE UniqueMap(user.permissions.list, <<>>)

userRoles(user) == IF user.present THEN user.roles ELSE {}

userDepartments(user) == IF user.present THEN user.departments ELSE {}

isAdmin_Only(user) == userRoles(user) = {<<"admin">>}

isAdmin(user) == <<"admin">> \in userRoles(user)

isManager_AnyPrefix(user) ==
    \E role \in userRoles(user) : role = <<"manager">> \/ Len(role) >= 2

isManager(user) ==
    \E role \in userRoles(user) : role = <<"manager">> \/ StartsWithManager(role)

\* Lines 63-81: a role requirement of the check that the user does not meet.
RoleRequirementFails_NoAdmin(user, check) ==
    \/ check.requireManager /\ ~isManager(user)
    \/ /\ check.requireSpecificRole # Absent
       /\ check.requireSpecificRole \notin userRoles(user)
    \/ /\ check.requireAnyRole.defined
       /\ ~\E role \in check.requireAnyRole.roles : role \in userRoles(user)

RoleRequirementFails(user, check) ==
    \/ check.requireAdmin /\ ~isAdmin(user)
    \/ check.requireManager /\ ~isManager(user)
    \/ /\ check.requireSpecificRole # Absent
       /\ check.requireSpecificRole \notin userRoles(user)
    \/ /\ check.requireAnyRole.defined
       /\ ~\E role \in check.requireAnyRole.roles : role \in userRoles(user)

\* Lines 85-89: some permission of the snapshot has the name and the action.
GrantMatches_NameOnly(permissions, departmentSlug, action) ==
    \E i \in 1..Len(permissions) : permissions[i].name = departmentSlug

GrantMatches(permissions, departmentSlug, action) ==
    \E i \in 1..Len(permissions) :
        /\ permissions[i].name = departmentSlug
        /\ permissions[i].action = action

\* Lines 93-96: an explicit department of that slug, or a role ending in
\* "-" and the slug.
MembershipMatches_Convention(user, departmentSlug) ==
    \/ departmentSlug \in userDepartments(user)
    \/ \E role \in userRoles(user) :
          role \in {<<"manager">> \o departmentSlug, <<"user">> \o departmentSlug}

MembershipMatches(user, departmentSlug) ==
    \/ departmentSlug \in userDepartments(user)
    \/ \E role \in userRoles(user) : EndsWithSlug(role, departmentSlug)

\* Lines 83-99: the department clauses and the default.
DepartmentClause_ActionNeedsSlug(user, permissions, check) ==
    IF check.departmentSlug # Absent /\ check.action # NoAction
    THEN GrantMatches(permissions, check.departmentSlug, check.action)
    ELSE IF check.departmentSlug # Absent
    THEN MembershipMatches(user, check.departmentSlug)
    ELSE check.action = NoAction

DepartmentClause(user, permissions, check) ==
    IF check.departmentSlug # Absent /\ check.action # NoAction
    THEN GrantMatches(permissions, check.departmentSlug, check.action)
    ELSE IF check.departmentSlug # Absent
    THEN MembershipMatches(user, check.departmentSlug)
    ELSE TRUE

\* useDynamicPermission's evaluator over the memoized snapshot.
checkDynamicPermission_NoUserGuard(user, permissions, check) ==
    IF isAdmin(user) THEN TRUE
    ELSE IF RoleRequirementFails(user, check) THEN FALSE
    ELSE DepartmentClause(user, permissions, check)

checkDynamicPermission(user, permissions, check) ==
    IF ~user.present THEN FALSE
    ELSE IF isAdmin(user) THEN TRUE
    ELSE IF RoleRequirementFails(user, check) THEN FALSE
    ELSE DepartmentClause(user, permissions, check)

\* An array the model holds as a set, in some order.
RECURSIVE ArrayOf(_)
ArrayOf(S) ==
    IF S = {} THEN <<>>
    ELSE LET x == CHOOSE x \in S : TRUE
         IN  <<x>> \o ArrayOf(S \ {x})

Elements(seq) == { seq[i] : i \in 1..Len(seq) }

\* departments.add(slug) on a Set, in insertion order
SetAdd(departments, slug) ==
    IF slug \in Elements(departments) THEN departments
    ELSE Append(departments, slug)

\* role.match(/^(manager|user)-(.+)$/): match[2] is what follows the prefix.
RoleMatches(role) == Len(role) >= 2 /\ role[1] \in {"manager", "user"}

\* Lines 140, 143-148 with an array in place of the Set.
RECURSIVE PushEach(_, _, _)
PushEach(departments, slugs, roles) ==
    IF slugs # <<>>
    THEN PushEach(Append(departments, Head(slugs)), Tail(slugs), roles)
    ELSE IF roles # <<>>
    THEN PushEach(IF RoleMatches(Head(roles))
                  THEN Append(departments, Tail(Head(roles)))
                  ELSE departments,
                  slugs, Tail(roles))
    ELSE departments

\* Lines 140, 143-148: the explicit departments are added, then the slug of
\* every matching role.
RECURSIVE AddEach(_, _, _)
AddEach(departments, slugs, roles) ==
    IF slugs # <<>>
    THEN AddEach(SetAdd(departments, Head(slugs)), Tail(slugs), roles)
    ELSE IF roles # <<>>
    THEN AddEach(IF RoleMatches(Head(roles))
                 THEN SetAdd(departments, Tail(Head(roles)))
                 ELSE departments,
                 slugs, Tail(roles))
    ELSE departments

getAccessibleDepartments_Push(user) ==
    PushEach(<<>>, ArrayOf(userDepartments(user)), ArrayOf(userRoles(user)))

getAccessibleDepartments(user) ==
    AddEach(<<>>, ArrayOf(userDepartments(user)), ArrayOf(userRoles(user)))

\* A slip of the legacy evaluator: the role it computes grants.
checkPermission_HasRole(user, departmentSlug, action) ==
    IF ~user.present THEN FALSE
    ELSE IF \E role \in user.roles : role = <<"admin">> THEN TRUE
    ELSE \/ GrantMatches(getUserPermissions(user), departmentSlug, action)
         \/ \E role \in user.roles :
               role \in {<<"manager">> \o departmentSlug, <<"user">> \o departmentSlug}

\* usePermission's evaluator: hasRole is computed and not used.
checkPermission(user, departmentSlug, action) ==
    IF ~user.present THEN FALSE
    ELSE IF \E role \in user.roles : role = <<"admin">> THEN TRUE
    ELSE GrantMatches(getUserPermissions(user), departmentSlug, action)

canAccess(user, departmentSlug, action) ==
    checkPermission(user, departmentSlug, action)

\* The last call of a hook function: which one, its check and what it
\* returned (ret for the evaluators, list for the snapshot getter,
\* departments for getAccessibleDepartments).
NoCall ==
    [op |-> "none", check |-> EmptyCheck, ret |-> FALSE, list |-> <<>>,
     departments |-> <<>>]

\* Nobody is signed in and no hook function was called.
NoPerm == [user |-> NoUser, userPermissions |-> <<>>, call |-> NoCall]

(***************************************************************************)
(* Circuit breaker of the debt statistics page (useCircuitBreaker in       *)
(* src/unnamed/part_001 and part_002, two versions of one file).  The      *)
(* refs of one instance: attempts, lastFailure, isOpen, isCallInProgress.  *)
(* clock is Date.now(); running holds, for every wrapped function that is  *)
(* executing, the now its call captured; last tells what the latest call() *)
(* did.                                                                    *)
(***************************************************************************)
Versions == {1, 2}

\* attempts.current >= 2 in part_001, >= 3 in part_002
Threshold(version) == IF version = 1 THEN 2 ELSE 3

\* now - lastFailure.current against 3000 in part_001, 10000 in part_002
Cooldown(version) == IF version = 1 THEN 3000 ELSE 10000

NewBreaker(version) ==
    [version |-> version, clock |-> 0, attempts |-> 0, lastFailure |-> 0,
     isOpen |-> FALSE, isCallInProgress |-> FALSE, running |-> <<>>,
     last |-> "none"]

\* seq without its i-th element
RemoveAt(seq, i) == SubSeq(seq, 1, i - 1) \o SubSeq(seq, i + 1, Len(seq))

\* A slip of call(): the in-progress test is missing.
CallStep_NoBusyTest(b, at) ==
    IF b.isOpen /\ at - b.lastFailure < Cooldown(b.version)
    THEN [b EXCEPT !.last = "open"]
    ELSE [b EXCEPT !.isOpen = FALSE,
                   !.attempts = IF b.isOpen THEN 0 ELSE @,
                   !.isCallInProgress = TRUE,
                   !.running = Append(@, at),
                   !.last = IF b.isOpen THEN "reset" ELSE "invoked"]

\* call(fn) up to await fn(): the breaker after it, with last telling
\* whether the call returned at once (busy, open) or invoked fn (invoked;
\* reset when it closed the circuit first).
CallStep(b, at) ==
    IF b.isCallInProgress
    THEN [b EXCEPT !.last = "busy"]
    ELSE IF b.isOpen /\ at - b.lastFailure < Cooldown(b.version)
    THEN [b EXCEPT !.last = "open"]
    ELSE [b EXCEPT !.isOpen = FALSE,
                   !.attempts = IF b.isOpen THEN 0 ELSE @,
                   !.isCallInProgress = TRUE,
                   !.running = Append(@, at),
                   !.last = IF b.isOpen THEN "reset" ELSE "invoked"]

\* A slip of the catch block: the circuit opens one failure late.
SettleStep_Late(b, i, ok) ==
    IF ok
    THEN [b EXCEPT !.attempts = 0, !.isCallInProgress = FALSE,
                   !.running = RemoveAt(@, i), !.last = "success"]
    ELSE [b EXCEPT !.attempts = @ + 1,
                   !.lastFailure = b.running[i],
                   !.isOpen = @ \/ b.attempts + 1 > Threshold(b.version),
                   !.isCallInProgress = FALSE,
                   !.running = RemoveAt(@, i), !.last = "failure"]

\* call(fn) from the settling of fn(): the try, catch and finally blocks.
SettleStep(b, i, ok) ==
    IF ok
    THEN [b EXCEPT !.attempts = 0, !.isCallInProgress = FALSE,
                   !.running = RemoveAt(@, i), !.last = "success"]
    ELSE [b EXCEPT !.attempts = @ + 1,
                   !.lastFailure = b.running[i],
                   !.isOpen = @ \/ b.attempts + 1 >= Threshold(b.version),
                   !.isCallInProgress = FALSE,
                   !.running = RemoveAt(@, i), !.last = "failure"]

(***************************************************************************)
(* Token store (src/lib/auth.ts).  A string is the sequence of its         *)
(* characters; the cookie name access_token, like every other cookie name, *)
(* is one symbol.  document.cookie is the browser's list of name=value     *)
(* pairs; hasDocument is whether the code runs where document is defined   *)
(* (the browser) or not (a server render).                                 *)
(***************************************************************************)
Null == [t |-> "null", v |-> <<>>]

\* What a call returned: null, a string, or nothing (a throw is its own t).
String(v) == [t |-> "string", v |-> v]

Thrown == [t |-> "throws", v |-> <<>>]

\* The last call of a store function and, in stored, the last write call
\* (setAccessToken with its token, or clearAccessToken).
NoStoreCall == [op |-> "none", arg |-> <<>>, ret |-> Null]

NoDocument ==
    [hasDocument |-> FALSE, cookies |-> <<>>, call |-> NoStoreCall,
     stored |-> NoStoreCall]

AccessTokenName == <<"access_token">>

\* Characters of a token: a letter, and the ones a cookie pair gives a
\* meaning to.
TokenChars == {"a", "=", ";", "%", " "}

TokenStrings == SeqsUpTo(TokenChars, MaxTokenLen)

\* Cookies of other names the browser may hold next to the token's.
OtherCookies ==
    { <<>>,
      << [name |-> <<"access_token", "_old">>, value |-> <<"a">>] >>,
      << [name |-> <<"x", "access_token">>, value |-> <<"a", "=", "a">>] >> }

\* encodeURIComponent on one character
EscapeOf(c) ==
    CASE c = "=" -> <<"%", "3", "D">>
      [] c = ";" -> <<"%", "3", "B">>
      [] c = "%" -> <<"%", "2", "5">>
      [] c = " " -> <<"%", "2", "0">>
      [] OTHER -> <<c>>

RECURSIVE encodeURIComponent(_)
encodeURIComponent(str) ==
    IF str = <<>> THEN <<>>
    ELSE EscapeOf(Head(str)) \o encodeURIComponent(Tail(str))

Escapes == { EscapeOf(c) : c \in {"=", ";", "%", " "} }

\* decodeURIComponent: the decoded string, or malformed for a % that no
\* escape follows (a URIError).
RECURSIVE decodeURIComponent(_)
decodeURIComponent(str) ==
    IF str = <<>> THEN [malformed |-> FALSE, v |-> <<>>]
    ELSE IF Head(str) # "%"
    THEN LET rest == decodeURIComponent(Tail(str))
         IN  [malformed |-> rest.malformed, v |-> <<Head(str)>> \o rest.v]
    ELSE IF Len(str) >= 3 /\ SubSeq(str, 1, 3) \in Escapes
    THEN LET rest == decodeURIComponent(SubSeq(str, 4, Len(str)))
             c == CHOOSE c \in TokenChars : EscapeOf(c) = SubSeq(str, 1, 3)
         IN  [malformed |-> rest.malformed, v |-> <<c>> \o rest.v]
    ELSE [malformed |-> TRUE, v |-> <<>>]

\* str.split(sep): the pieces between the separators, one piece at least.
RECURSIVE Split(_, _)
Split(str, sep) ==
    IF \A i \in 1..Len(str) : str[i] # sep THEN <<str>>
    ELSE LET i == CHOOSE i \in 1..Len(str) :
                     str[i] = sep /\ \A j \in 1..(i - 1) : str[j] # sep
         IN  <<SubSeq(str, 1, i - 1)>> \o Split(SubSeq(str, i + 1, Len(str)), sep)

\* str.trim()
RECURSIVE Trim(_)
Trim(str) ==
    IF str = <<>> THEN <<>>
    ELSE IF Head(str) = " " THEN Trim(Tail(str))
    ELSE IF str[Len(str)] = " " THEN Trim(SubSeq(str, 1, Len(str) - 1))
    ELSE str

\* What follows the first "=" of a cookie pair.
AfterFirst(str, sep) ==
    IF \A i \in 1..Len(str) : str[i] # sep THEN <<>>
    ELSE LET i == CHOOSE i \in 1..Len(str) :
                     str[i] = sep /\ \A j \in 1..(i - 1) : str[j] # sep
         IN  SubSeq(str, i + 1, Len(str))

\* The browser's assignment to document.cookie: the pair before the first
\* ";" names the cookie and gives its value; an expiry in the past removes
\* the cookie of that name, any other stores it in place of the old one.
RECURSIVE Without(_, _)
Without(cookies, name) ==
    IF cookies = <<>> THEN <<>>
    ELSE IF Head(cookies).name = name THEN Without(Tail(cookies), name)
    ELSE <<Head(cookies)>> \o Without(Tail(cookies), name)

AssignCookie(cookies, text) ==
    LET pieces == Split(text, ";")
        pair == Trim(pieces[1])
        name == Trim(Split(pair, "=")[1])
        value == Trim(AfterFirst(pair, "="))
        expired == \E k \in 2..Len(pieces) : Trim(pieces[k]) = <<"expires", "=", "past">>
    IN  IF expired THEN Without(cookies, name)
        ELSE Append(Without(cookies, name), [name |-> name, value |-> value])

\* The browser's document.cookie: the pairs, joined by "; ".
RECURSIVE CookieText(_)
CookieText(cookies) ==
    IF cookies = <<>> THEN <<>>
    ELSE Head(cookies).name \o <<"=">> \o Head(cookies).value
           \o (IF Len(cookies) > 1 THEN <<";", " ">> ELSE <<>>)
           \o CookieText(Tail(cookies))


\* Lines 4-13: the first piece of document.cookie whose name is
\* access_token gives the value; value is undefined for a piece without "=".
RECURSIVE FirstAccessToken(_)
FirstAccessToken(pieces) ==
    IF pieces = <<>> THEN Null
    ELSE LET parts == Split(Trim(Head(pieces)), "=")
         IN  IF parts[1] = AccessTokenName
             THEN IF Len(parts) >= 2
                  THEN LET decoded == decodeURIComponent(parts[2])
                       IN  IF decoded.malformed THEN Thrown
                           ELSE String(decoded.v)
                  ELSE String(<<"undefined">>)
             ELSE FirstAccessToken(Tail(pieces))

getAccessToken(d) ==
    IF ~d.hasDocument THEN Null
    ELSE FirstAccessToken(Split(CookieText(d.cookies), ";"))

\* A slip of setAccessToken: the token is written as it is.
SetAccessTokenText_Raw(token) ==
    AccessTokenName \o <<"=">> \o token
      \o <<";", " ", "expires", "=", "future", ";", " ", "path", "=", "/",
           ";", " ", "SameSite", "=", "Lax">>

\* Line 65: the string setAccessToken assigns to document.cookie.
SetAccessTokenText(token) ==
    AccessTokenName \o <<"=">> \o encodeURIComponent(token)
      \o <<";", " ", "expires", "=", "future", ";", " ", "path", "=", "/",
           ";", " ", "SameSite", "=", "Lax">>

\* Lines 71-72: the string clearAccessToken assigns to document.cookie.
ClearAccessTokenText ==
    AccessTokenName
      \o <<"=", ";", " ", "expires", "=", "past", ";", " ", "path", "=", "/", ";">>

\* A chain of redirects the browser follows: the number of redirects so far.
NoChain == [hops |-> 0]

(***************************************************************************)
(* State.  navItems is the static table.  jar holds the browser's two      *)
(* cookies.  now is Date.now().  inv[p] is guard invocation p: its         *)
(* position, the request it serves, the locals of the guard, the number    *)
(* of refresh calls it issued, the answer it got and its response.  perm is *)
(* the client's permission hooks: the user of AuthContext, the memoized    *)
(* permission snapshot and the last call.                                  *)
(***************************************************************************)
Procs == {1, 2}

IdleInv ==
    [pc |-> "idle", pathname |-> None, token |-> NoToken, refreshToken |-> None,
     at |-> 0, isValid |-> FALSE, userRoles |-> {}, zaloLinkStatus |-> 0,
     threw |-> FALSE, calls |-> 0, result |-> NoResult, resp |-> NoResponse]

NoCookies == [access_token |-> NoToken, refresh_token |-> None]

Init ==
    /\ navItems \in NavTables
    /\ jar = NoCookies
    /\ now = 1999
    /\ inv = [p \in Procs |-> IdleInv]
    /\ perm = NoPerm
    /\ chain = NoChain
    /\ doc = NoDocument
    /\ cb = NewBreaker(1)

\* The client stores cookies: the login flow calls setAccessToken, the
\* refresh_token cookie comes with it.
StoreCookies(token, refreshToken) ==
    /\ \A p \in Procs : inv[p].pc = "idle"
    /\ jar = NoCookies
    /\ jar' = [access_token |-> token, refresh_token |-> refreshToken]
    /\ UNCHANGED <<navItems, now, inv, perm, chain, doc, cb>>

\* The cookies reach their maxAge, or the user clears them.
CookiesExpire ==
    /\ \A p \in Procs : inv[p].pc = "idle"
    /\ jar # NoCookies
    /\ jar' = NoCookies
    /\ UNCHANGED <<navItems, now, inv, perm, chain, doc, cb>>

\* Time passes.
Tick ==
    /\ now < MaxNow
    /\ now' = now + 1
    /\ UNCHANGED <<navItems, jar, inv, perm, chain, doc, cb>>

\* middleware(request) up to its first return or to the refresh call.
Request(p, pathname) ==
    /\ inv[p].pc = "idle"
    /\ LET token == jar.access_token
           refreshToken == jar.refresh_token
           d == DecodeBlock(token, now)
           r == SyncPart(d, pathname, refreshToken)
       IN  inv' = [inv EXCEPT ![p] =
                     [pc |-> r.pc, pathname |-> pathname, token |-> token,
                      refreshToken |-> refreshToken, at |-> now,
                      isValid |-> d.isValid, userRoles |-> d.userRoles,
                      zaloLinkStatus |-> d.zaloLinkStatus, threw |-> d.threw,
                      calls |-> IF r.pc = "fetch" THEN 1 ELSE 0,
                      result |-> NoResult, resp |-> r.resp]]
    /\ UNCHANGED <<navItems, jar, now, perm, chain, doc, cb>>

\* The refresh call settles (resolves, or rejects) and the guard returns.
RefreshSettles(p, result) ==
    /\ inv[p].pc = "fetch"
    /\ inv' = [inv EXCEPT ![p].pc = "done",
                          ![p].result = result,
                          ![p].resp = AfterRefresh(result, inv[p].pathname)]
    /\ UNCHANGED <<navItems, jar, now, perm, chain, doc, cb>>

\* A slip of the cookie jar: a delete does not remove the cookie.
ApplyCookie_DeleteIgnored(old, write, absent) ==
    IF write.op = "set" THEN write.value ELSE old

\* A cookie after a response's write to it; absent is the value a deleted
\* cookie has.
ApplyCookie(old, write, absent) ==
    IF write.op = "set" THEN write.value
    ELSE IF write.op = "delete" THEN absent
    ELSE old

\* The browser receives the response and applies its cookie writes.
Deliver(p) ==
    /\ inv[p].pc = "done"
    /\ jar' = [access_token |-> ApplyCookie(jar.access_token, inv[p].resp.access, NoToken),
               refresh_token |-> ApplyCookie(jar.refresh_token, inv[p].resp.refresh, None)]
    /\ inv' = [inv EXCEPT ![p] = IdleInv]
    /\ UNCHANGED <<navItems, now, perm, chain, doc, cb>>

\* One navigation at a time.
Sequential == {1}

Next ==
    \/ \E token \in Tokens \cup {NoToken}, refreshToken \in {None, "rt1"} :
          StoreCookies(token, refreshToken)
    \/ CookiesExpire
    \/ Tick
    \/ \E p \in Sequential, pathname \in Paths : Request(p, pathname)
    \/ \E p \in Sequential, result \in RefreshResults : RefreshSettles(p, result)
    \/ \E p \in Sequential : Deliver(p)

Spec == Init /\ [][Next]_vars

\* The refresh call of an invocation settles: fetch resolves or rejects once
\* the network stack answers or gives up.  Termination is checked over the
\* tables of at most two items.
FairInit ==
    /\ Init
    /\ Len(navItems[1].items) + Len(navItems[2].items) <= 2

FairSpec ==
    /\ FairInit
    /\ [][Next]_vars
    /\ \A p \in Sequential :
          WF_vars(\E result \in RefreshResults : RefreshSettles(p, result))

(***************************************************************************)
(* The permission hooks in a rendered component: AuthContext provides a    *)
(* user at sign-in and none after sign-out, which recomputes the           *)
(* memoized snapshot, and the component calls the hook functions.  The     *)
(* hook functions are synchronous: a call runs to its return before the    *)
(* context can change or another call can start.                           *)
(***************************************************************************)
\* AuthContext provides a user (sign-in), or none any more (sign-out).
SetUser(user) ==
    /\ perm.call = NoCall
    /\ user # perm.user
    /\ perm.user = NoUser \/ user = NoUser
    /\ perm' = [user |-> user, userPermissions |-> userPermissions(user),
                call |-> NoCall]
    /\ UNCHANGED <<navItems, jar, now, inv, chain, doc, cb>>

\* checkDynamicPermission(check)
CheckDynamicPermission(check) ==
    /\ perm.call = NoCall
    /\ perm' = [perm EXCEPT !.call =
                  [op |-> "checkDynamicPermission", check |-> check,
                   ret |-> checkDynamicPermission(perm.user,
                                                  perm.userPermissions, check),
                   list |-> <<>>, departments |-> <<>>]]
    /\ UNCHANGED <<navItems, jar, now, inv, chain, doc, cb>>

\* usePermission's canAccess(departmentSlug, action)
CanAccess(departmentSlug, action) ==
    /\ perm.call = NoCall
    /\ perm' = [perm EXCEPT !.call =
                  [op |-> "canAccess",
                   check |-> [EmptyCheck EXCEPT !.departmentSlug = departmentSlug,
                                                !.action = action],
                   ret |-> canAccess(perm.user, departmentSlug, action),
                   list |-> <<>>, departments |-> <<>>]]
    /\ UNCHANGED <<navItems, jar, now, inv, chain, doc, cb>>

\* usePermission's getAllUserPermissions()
GetAllUserPermissions ==
    /\ perm.call = NoCall
    /\ perm' = [perm EXCEPT !.call =
                  [op |-> "getAllUserPermissions", check |-> EmptyCheck,
                   ret |-> FALSE,
                   list |-> IF ~perm.user.present THEN <<>>
                            ELSE getUserPermissions(perm.user),
                   departments |-> <<>>]]
    /\ UNCHANGED <<navItems, jar, now, inv, chain, doc, cb>>

\* getAccessibleDepartments()
GetAccessibleDepartments ==
    /\ perm.call = NoCall
    /\ perm' = [perm EXCEPT !.call =
                  [op |-> "getAccessibleDepartments", check |-> EmptyCheck,
                   ret |-> FALSE, list |-> <<>>,
                   departments |-> getAccessibleDepartments(perm.user)]]
    /\ UNCHANGED <<navItems, jar, now, inv, chain, doc, cb>>

\* The caller has used what the call returned.
CallReturns ==
    /\ perm.call # NoCall
    /\ perm' = [perm EXCEPT !.call = NoCall]
    /\ UNCHANGED <<navItems, jar, now, inv, chain, doc, cb>>

PermInit ==
    /\ navItems = <<[items |-> <<>>], [items |-> <<>>]>>
    /\ jar = NoCookies
    /\ now = 1999
    /\ inv = [p \in Procs |-> IdleInv]
    /\ perm = NoPerm
    /\ chain = NoChain
    /\ doc = NoDocument
    /\ cb = NewBreaker(1)

PermNext ==
    \/ \E user \in Users \cup {NoUser} : SetUser(user)
    \/ \E check \in Checks : CheckDynamicPermission(check)
    \/ \E departmentSlug \in Slugs, action \in Actions :
          CanAccess(departmentSlug, action)
    \/ GetAllUserPermissions
    \/ GetAccessibleDepartments
    \/ CallReturns

PermSpec == PermInit /\ [][PermNext]_vars

(***************************************************************************)
(* Vocabulary of the properties, stated on the request (the token the      *)
(* browser sent, the clock reading, the table) and not on the guard's      *)
(* locals.                                                                 *)
(***************************************************************************)
\* The current time in seconds.
NowSeconds(ms) == ms \div 1000

Started(p) == inv[p].pc \in {"fetch", "done"}

Finished(p) == inv[p].pc = "done"

\* The token decodes and its exp is a number greater than the current time.
Unexpired(token, at) ==
    /\ token.seg = "ok"
    /\ token.payload.exp.t = "number"
    /\ token.payload.exp.v > NowSeconds(at)

\* The token decodes and its exp is a number not greater than the current time.
Expired(token, at) ==
    /\ token.seg = "ok"
    /\ token.payload.exp.t = "number"
    /\ token.payload.exp.v <= NowSeconds(at)

\* A valid token: every step of the decode succeeds and exp lies ahead.
ValidToken(token, at) ==
    /\ Unexpired(token, at)
    /\ token.payload.roles.t # "unmappable"

\* The roles a token carries.
TokenRoles(token) ==
    IF token.payload.roles.t = "array" THEN token.payload.roles.names ELSE {}

\* The link status a token carries (0 when it carries none).
TokenLinkStatus(token) ==
    IF token.payload.zaloLinkStatus.t = "number"
    THEN token.payload.zaloLinkStatus.v ELSE 0

\* The outcome is a refresh attempt or a redirect to /login.
RefreshOrLogin(p) ==
    \/ inv[p].calls = 1
    \/ inv[p].resp.kind = "redirect" /\ inv[p].resp.location = "/login"

\* C1 as stated: for a token whose numeric exp is not greater than the current
\* time and for every path, the session is invalid and the outcome is a
\* refresh attempt or a redirect to /login.
C1_EveryPath ==
    \A p \in Procs :
        (Started(p) /\ Expired(inv[p].token, inv[p].at))
            => (~inv[p].isValid /\ RefreshOrLogin(p))

\* C1 (amended): for a token whose numeric exp is not greater than the current
\* time the session is invalid; on every path other than the public /login
\* the outcome is a refresh attempt or a redirect to /login, and a request to
\* /login continues.
C1_ExpiredIsInvalid ==
    \A p \in Procs :
        (Started(p) /\ Expired(inv[p].token, inv[p].at))
            => /\ ~inv[p].isValid
               /\ inv[p].pathname # "/login" => RefreshOrLogin(p)
               /\ inv[p].pathname = "/login" => inv[p].resp = Continue

\* An expired token (exp equal to the current time) on a page: a refresh
\* was attempted, failed, and the guard redirects to /login.
C1_Witness ==
    \E p \in Procs :
        /\ Finished(p)
        /\ inv[p].token.seg = "ok"
        /\ inv[p].token.payload.exp = [t |-> "number", v |-> 2]
        /\ inv[p].at = 2000
        /\ inv[p].pathname = "/profile"
        /\ inv[p].calls = 1
        /\ inv[p].resp.location = "/login"

\* C2: the guard treats a token as valid only if it decodes and its exp is a
\* positive number strictly greater than the current time in seconds.
C2_ValidOnlyIfUnexpired ==
    \A p \in Procs :
        inv[p].isValid
            => /\ inv[p].token.seg = "ok"
               /\ inv[p].token.payload.exp.t = "number"
               /\ inv[p].token.payload.exp.v > 0
               /\ inv[p].token.payload.exp.v > NowSeconds(inv[p].at)

\* A token one millisecond before its expiry is treated as valid.
C2_Witness ==
    \E p \in Procs :
        /\ Finished(p)
        /\ inv[p].isValid
        /\ inv[p].token.payload.exp = [t |-> "number", v |-> 2]
        /\ inv[p].at = 1999

Positions ==
    UNION { { <<g, i>> : i \in 1..Len(navItems[g].items) } : g \in 1..Len(navItems) }

ItemAt(pos) == navItems[pos[1]].items[pos[2]]

Before(a, b) == a[1] < b[1] \/ (a[1] = b[1] /\ a[2] < b[2])

\* The item's roles field is absent or shares a role with roles.
OpenTo(roles, item) == ~item.hasRoles \/ (item.roles \cap roles) # {}

OpenPositions(roles) == { pos \in Positions : OpenTo(roles, ItemAt(pos)) }

\* The URL of the first item open to roles, None when there is none.
FirstOpenUrl(roles) ==
    IF OpenPositions(roles) = {} THEN None
    ELSE LET first == CHOOSE a \in OpenPositions(roles) :
                          \A b \in OpenPositions(roles) : a = b \/ Before(a, b)
         IN  ItemAt(first).url

TableUrls == { ItemAt(pos).url : pos \in Positions }

\* url is accessible under roles: some item with that url is open to them.
PathOpenTo(roles, url) ==
    \E pos \in Positions : ItemAt(pos).url = url /\ OpenTo(roles, ItemAt(pos))

\* C4: for a token with exp greater than the current time and a link status
\* other than 2, a request to the account-linking path, and a request to a
\* navigation-table path accessible under the token's roles, continues with no
\* redirect.
C4_AuthorizedContinues ==
    \A p \in Procs :
        (/\ Started(p)
         /\ Unexpired(inv[p].token, inv[p].at)
         /\ TokenLinkStatus(inv[p].token) # 2
         /\ \/ inv[p].pathname = "/dashboard/link-account"
            \/ /\ inv[p].pathname \in TableUrls
               /\ PathOpenTo(TokenRoles(inv[p].token), inv[p].pathname))
            => (Finished(p) /\ inv[p].resp = Continue)

\* A page whose first entry in the table is closed to the user and whose
\* second entry is open: the request continues.
C4_Witness ==
    \E p \in Procs :
        /\ Finished(p)
        /\ Unexpired(inv[p].token, inv[p].at)
        /\ TokenLinkStatus(inv[p].token) = 1
        /\ TokenRoles(inv[p].token) = {"user-cong-no"}
        /\ inv[p].pathname = "/debt/manage"
        /\ PathOpenTo({"user-cong-no"}, "/debt/manage")
        /\ Len(navItems[1].items) >= 1
        /\ ~OpenTo({"user-cong-no"}, ItemAt(<<1, 1>>))
        /\ inv[p].resp = Continue

\* C5: for a valid token whose zaloLinkStatus is 2, every path other than
\* /dashboard/link-account is redirected to /dashboard/link-account, and a
\* request to /dashboard/link-account continues.
C5_LinkErrorOverride ==
    \A p \in Procs :
        (/\ Started(p)
         /\ ValidToken(inv[p].token, inv[p].at)
         /\ TokenLinkStatus(inv[p].token) = 2)
            => /\ Finished(p)
               /\ inv[p].pathname # "/dashboard/link-account"
                    => inv[p].resp = Redirect("/dashboard/link-account")
               /\ inv[p].pathname = "/dashboard/link-account"
                    => inv[p].resp = Continue

\* A link-error user asks for a page of the table that the roles may not
\* open while another is open: the link page wins over the authorization check.
C5_Witness ==
    \E p \in Procs :
        /\ Finished(p)
        /\ ValidToken(inv[p].token, inv[p].at)
        /\ TokenLinkStatus(inv[p].token) = 2
        /\ inv[p].pathname \in TableUrls
        /\ ~PathOpenTo(TokenRoles(inv[p].token), inv[p].pathname)
        /\ FirstOpenUrl(TokenRoles(inv[p].token)) # None
        /\ inv[p].resp.location = "/dashboard/link-account"

\* C6: for a valid session without the link-error status and a path '/',
\* '/login' or '/dashboard', the guard redirects to the URL of the first item,
\* in table order, whose roles field is absent or shares a role with the
\* user's roles.
C6_LandingRedirect ==
    \A p \in Procs :
        (/\ Started(p)
         /\ ValidToken(inv[p].token, inv[p].at)
         /\ TokenLinkStatus(inv[p].token) # 2
         /\ inv[p].pathname \in {"/", "/login", "/dashboard"}
         /\ FirstOpenUrl(TokenRoles(inv[p].token)) # None)
            => /\ Finished(p)
               /\ inv[p].resp = Redirect(FirstOpenUrl(TokenRoles(inv[p].token)))

\* Role user-cong-no on '/', the first group holding no item open to it: the
\* guard redirects to /statistic/debts, found in the second group.
C6_Witness ==
    \E p \in Procs :
        /\ Finished(p)
        /\ ValidToken(inv[p].token, inv[p].at)
        /\ TokenRoles(inv[p].token) = {"user-cong-no"}
        /\ inv[p].pathname = "/"
        /\ Len(navItems[1].items) = 1
        /\ ~OpenTo({"user-cong-no"}, ItemAt(<<1, 1>>))
        /\ inv[p].resp = Redirect("/statistic/debts")


\* The session is invalid: no token, a token that does not decode, or one
\* whose exp is not a number greater than the current time.
InvalidSession(p) == ~Unexpired(inv[p].token, inv[p].at)

\* The refresh of invocation p succeeded with an access_token.
RefreshSucceeded(p) ==
    inv[p].result.t = "ok" /\ inv[p].result.access_token # NoToken

\* The refresh of invocation p did not succeed: no refresh_token cookie, a
\* network error, a non-success response, or a response without access_token.
RefreshFailed(p) ==
    \/ inv[p].refreshToken = None
    \/ inv[p].result.t \in {"throws", "notok", "badbody"}
    \/ inv[p].result.t = "ok" /\ inv[p].result.access_token = NoToken

\* C7: session invalid, path not public, refresh_token cookie present: the
\* refresh is called, and when it succeeds with an access_token the guard sets
\* the access_token cookie to it (and the refresh_token cookie to the returned
\* one when there is one) and continues.
C7_RefreshSuccessContinues ==
    \A p \in Procs :
        (/\ Started(p)
         /\ InvalidSession(p)
         /\ inv[p].pathname # "/login"
         /\ inv[p].refreshToken # None)
            => /\ inv[p].calls = 1
               /\ (Finished(p) /\ RefreshSucceeded(p))
                    => /\ inv[p].resp.kind = "next"
                       /\ inv[p].resp.access =
                            [op |-> "set", value |-> inv[p].result.access_token]
                       /\ inv[p].result.refresh_token # None
                            => inv[p].resp.refresh =
                                 [op |-> "set", value |-> inv[p].result.refresh_token]

\* A refresh that returned both tokens: both cookies are set, the request
\* continues.
C7_Witness ==
    \E p \in Procs :
        /\ Finished(p)
        /\ InvalidSession(p)
        /\ inv[p].pathname = "/debt/manage"
        /\ inv[p].result.t = "ok"
        /\ inv[p].result.refresh_token = "rt2"
        /\ inv[p].resp.kind = "next"
        /\ inv[p].resp.access.op = "set"
        /\ inv[p].resp.refresh.op = "set"

\* The forced logout carrying callback: redirect to /login, both cookies
\* deleted.
ForcedLogout(p, callback) ==
    /\ inv[p].resp.kind = "redirect"
    /\ inv[p].resp.location = "/login"
    /\ inv[p].resp.callbackUrl = callback
    /\ inv[p].resp.access.op = "delete"
    /\ inv[p].resp.refresh.op = "delete"

\* C8 as stated: session invalid, path not public, refresh not successful:
\* redirect to /login with the request URL as callbackUrl, both cookies deleted.
C8_AlwaysCallback ==
    \A p \in Procs :
        (/\ Finished(p)
         /\ InvalidSession(p)
         /\ inv[p].pathname # "/login"
         /\ RefreshFailed(p))
            => ForcedLogout(p, inv[p].pathname)

\* C8 (amended): as stated, except that a path starting with /login gets no
\* callbackUrl parameter.
C8_ForcedLogout ==
    \A p \in Procs :
        (/\ Finished(p)
         /\ InvalidSession(p)
         /\ inv[p].pathname # "/login"
         /\ RefreshFailed(p))
            => ForcedLogout(p, IF inv[p].pathname = "/login/help"
                               THEN None ELSE inv[p].pathname)

\* A refresh that ended in a network error: forced logout with the page as
\* callbackUrl.
C8_Witness ==
    \E p \in Procs :
        /\ Finished(p)
        /\ InvalidSession(p)
        /\ inv[p].refreshToken = "rt1"
        /\ inv[p].result.t = "throws"
        /\ inv[p].pathname = "/profile"
        /\ ForcedLogout(p, "/profile")

\* C9: valid session without the link-error status, path in the navigation
\* table but not accessible under the user's roles: redirect to the first
\* accessible item when there is one, continue when there is none.
C9_DeniedPath ==
    \A p \in Procs :
        (/\ Started(p)
         /\ ValidToken(inv[p].token, inv[p].at)
         /\ TokenLinkStatus(inv[p].token) # 2
         /\ inv[p].pathname \in TableUrls
         /\ ~PathOpenTo(TokenRoles(inv[p].token), inv[p].pathname))
            => /\ Finished(p)
               /\ FirstOpenUrl(TokenRoles(inv[p].token)) # None
                    => inv[p].resp = Redirect(FirstOpenUrl(TokenRoles(inv[p].token)))
               /\ FirstOpenUrl(TokenRoles(inv[p].token)) = None
                    => inv[p].resp = Continue

\* A denied page, no item of the table open to the user: the request continues.
C9_Witness ==
    \E p \in Procs :
        /\ Finished(p)
        /\ ValidToken(inv[p].token, inv[p].at)
        /\ TokenLinkStatus(inv[p].token) # 2
        /\ inv[p].pathname \in TableUrls
        /\ ~PathOpenTo(TokenRoles(inv[p].token), inv[p].pathname)
        /\ FirstOpenUrl(TokenRoles(inv[p].token)) = None
        /\ inv[p].resp = Continue

\* A denied page while another page is open to the user: redirect to it.
C9_WitnessRedirect ==
    \E p \in Procs :
        /\ Finished(p)
        /\ ValidToken(inv[p].token, inv[p].at)
        /\ inv[p].pathname = "/statistic/debts"
        /\ ~PathOpenTo(TokenRoles(inv[p].token), inv[p].pathname)
        /\ inv[p].resp = Redirect("/debt/manage")

\* The four terminal outcomes: continue, redirect to /login, redirect to the
\* first accessible path, redirect to the account-linking path.
TerminalOutcome(p) ==
    \/ inv[p].resp.kind = "next"
    \/ /\ inv[p].resp.kind = "redirect"
       /\ \/ inv[p].resp.location = "/login"
          \/ inv[p].resp.location = "/dashboard/link-account"
          \/ /\ inv[p].resp.location # None
             /\ inv[p].resp.location = FirstOpenUrl(TokenRoles(inv[p].token))

\* C10: every guard invocation terminates, and in one of the four outcomes;
\* no exception leaves the guard.
C10_Terminates ==
    /\ [](\A p \in Procs : Finished(p) => TerminalOutcome(p))
    /\ \A p \in Sequential : (inv[p].pc = "fetch") ~> Finished(p)

\* A refresh whose body could not be read ended in the redirect to /login.
C10_Witness ==
    \E p \in Procs :
        /\ Finished(p)
        /\ inv[p].result.t = "badbody"
        /\ inv[p].token.seg = "badjson"
        /\ inv[p].resp.kind = "redirect"
        /\ inv[p].resp.location = "/login"


\* The decode block fails on the token: there is a token, and its middle
\* segment is missing, is not base64 or JSON, or its roles array holds an
\* element that cannot be mapped.
DecodeFails(token) ==
    /\ token # NoToken
    /\ \/ token.seg # "ok"
       \/ token.payload.roles.t = "unmappable"

\* C11: if decoding the access token fails at any step of the decode block,
\* the guard proceeds with isValid = false and an empty role list.
C11_DecodeFailureInvalid ==
    \A p \in Procs :
        (Started(p) /\ DecodeFails(inv[p].token))
            => (~inv[p].isValid /\ inv[p].userRoles = {})

\* C12: one invocation issues at most one refresh call, only when the session
\* is invalid, the path is not public and a refresh_token cookie is present;
\* a failed refresh ends in the login redirect without another call.
C12_SingleRefresh ==
    \A p \in Procs :
        /\ inv[p].calls \in {0, 1}
        /\ inv[p].calls = 1
             => /\ InvalidSession(p)
                /\ inv[p].pathname # "/login"
                /\ inv[p].refreshToken # None
        /\ inv[p].pc = "fetch" => inv[p].calls = 1
        /\ (Finished(p) /\ inv[p].result.t # "none")
             => /\ inv[p].calls = 1
                /\ RefreshFailed(p) => ForcedLogout(p, inv[p].resp.callbackUrl)

\* A refresh answered with a non-success response: one call, then the login
\* redirect.
C12_Witness ==
    \E p \in Procs :
        /\ Finished(p)
        /\ inv[p].result.t = "notok"
        /\ inv[p].calls = 1
        /\ inv[p].resp.location = "/login"

(***************************************************************************)
(* Vocabulary of the permission properties, stated on the user that        *)
(* AuthContext provides and on the check passed, not on the hook's         *)
(* derived values.                                                         *)
(***************************************************************************)
\* checkDynamicPermission was called and returned.
Evaluated == perm.call.op = "checkDynamicPermission"

Authenticated == perm.user.present

HoldsRole(role) == Authenticated /\ role \in perm.user.roles

HoldsAdmin == HoldsRole(<<"admin">>)

\* The check sets one of the four role requirements.
SetsRoleRequirement(check) ==
    \/ check.requireAdmin
    \/ check.requireManager
    \/ check.requireSpecificRole # Absent
    \/ check.requireAnyRole.defined

\* The user's permissions, as provided, hold an entry of that name and action.
HasGrant(name, action) ==
    /\ Authenticated
    /\ perm.user.permissions.defined
    /\ \E k \in 1..Len(perm.user.permissions.list) :
          /\ perm.user.permissions.list[k].name = name
          /\ perm.user.permissions.list[k].action = action

\* C13: for an authenticated user whose roles include 'admin',
\* checkDynamicPermission returns true for every check.
C13_AdminBypass ==
    (Evaluated /\ HoldsAdmin) => perm.call.ret

\* An admin without any permission passes a check that requires a role the
\* admin lacks and asks for a department action.
C13_Witness ==
    /\ Evaluated
    /\ HoldsAdmin
    /\ Cardinality(perm.user.roles) = 2
    /\ ~perm.user.permissions.defined
    /\ perm.call.check.requireSpecificRole # Absent
    /\ ~HoldsRole(perm.call.check.requireSpecificRole)
    /\ perm.call.check.departmentSlug = <<"cong", "no">>
    /\ perm.call.check.action = "update"
    /\ perm.call.ret

\* C14: checkDynamicPermission({requireAdmin: true}) returns true exactly
\* when the user's roles contain 'admin'; without a user it returns false.
C14_RequireAdmin ==
    (Evaluated /\ perm.call.check = [EmptyCheck EXCEPT !.requireAdmin = TRUE])
        => (perm.call.ret <=> HoldsAdmin)

\* A signed-in manager is refused by {requireAdmin: true}.
C14_Witness ==
    /\ Evaluated
    /\ perm.call.check = [EmptyCheck EXCEPT !.requireAdmin = TRUE]
    /\ HoldsRole(<<"manager">>)
    /\ ~HoldsAdmin
    /\ ~perm.call.ret

\* C15: for an authenticated user, a slug s and an action a,
\* checkDynamicPermission({departmentSlug: s, action: a}) returns true exactly
\* when the user's permissions hold an entry (s, a) or the user is admin;
\* membership or a '<kind>-s' role alone does not grant the action.
C15_ActionNeedsGrant ==
    \A s \in Slugs, a \in Actions :
        (/\ Evaluated
         /\ Authenticated
         /\ perm.call.check = [EmptyCheck EXCEPT !.departmentSlug = s, !.action = a])
            => (perm.call.ret <=> (HasGrant(s, a) \/ HoldsAdmin))

\* A member of cong-no who holds user-cong-no and the update permission is
\* refused the read action.
C15_Witness ==
    /\ Evaluated
    /\ <<"cong", "no">> \in perm.user.departments
    /\ HoldsRole(<<"user", "cong", "no">>)
    /\ HasGrant(<<"cong", "no">>, "update")
    /\ perm.call.check = [EmptyCheck EXCEPT !.departmentSlug = <<"cong", "no">>,
                                            !.action = "read"]
    /\ ~perm.call.ret

\* The user holds a role whose name ends in "-" and the slug.
HoldsRoleEndingIn(slug) ==
    /\ Authenticated
    /\ \E role \in perm.user.roles : EndsWithSlug(role, slug)

\* C16: for a non-admin authenticated user and a check that sets only
\* departmentSlug = s, checkDynamicPermission returns true exactly when the
\* user has an explicit department of slug s or holds a role ending in '-s'.
C16_MembershipOnly ==
    \A s \in Slugs :
        (/\ Evaluated
         /\ Authenticated
         /\ ~HoldsAdmin
         /\ perm.call.check = [EmptyCheck EXCEPT !.departmentSlug = s])
            => (perm.call.ret <=> (s \in perm.user.departments
                                     \/ HoldsRoleEndingIn(s)))

\* A user of no department whose only role is lead-cong-no passes the check
\* of department cong-no.
C16_Witness ==
    /\ Evaluated
    /\ perm.user.present
    /\ perm.user.roles = {<<"lead", "cong", "no">>}
    /\ perm.user.departments = {}
    /\ perm.call.check = [EmptyCheck EXCEPT !.departmentSlug = <<"cong", "no">>]
    /\ perm.call.ret

\* The user meets none of a role requirement the check sets.
UnmetRoleRequirement(check) ==
    \/ check.requireAdmin
    \/ /\ check.requireManager
       /\ ~HoldsRole(<<"manager">>)
       /\ ~\E role \in perm.user.roles : StartsWithManager(role)
    \/ /\ check.requireSpecificRole # Absent
       /\ ~HoldsRole(check.requireSpecificRole)
    \/ /\ check.requireAnyRole.defined
       /\ \A role \in check.requireAnyRole.roles : ~HoldsRole(role)

\* C17: for a non-admin authenticated user, a check with a role requirement
\* the user does not meet (requireAdmin; requireManager without 'manager' or
\* a 'manager-' role; requireSpecificRole not held; requireAnyRole none
\* held) returns false even when the (departmentSlug, action) grant or the
\* department membership exists.
C17_RoleRequirementFirst ==
    (/\ Evaluated
     /\ Authenticated
     /\ ~HoldsAdmin
     /\ UnmetRoleRequirement(perm.call.check))
        => ~perm.call.ret

\* A member of cong-no with the read grant and role user-cong-no is refused
\* the read action when the check also requires a manager.
C17_Witness ==
    /\ Evaluated
    /\ perm.user.present
    /\ perm.user.roles = {<<"user", "cong", "no">>}
    /\ <<"cong", "no">> \in perm.user.departments
    /\ HasGrant(<<"cong", "no">>, "read")
    /\ perm.call.check = [EmptyCheck EXCEPT !.departmentSlug = <<"cong", "no">>,
                                            !.action = "read",
                                            !.requireManager = TRUE]
    /\ ~perm.call.ret

\* C18: without an authenticated user, checkDynamicPermission returns false
\* for every check, the empty check and the checks of role requirements
\* included; so does the legacy canAccess.
C18_NoUserDenied ==
    (~Authenticated /\ perm.call.op \in {"checkDynamicPermission", "canAccess"})
        => ~perm.call.ret

\* The empty check is refused when nobody is signed in.
C18_Witness ==
    /\ ~Authenticated
    /\ Evaluated
    /\ perm.call.check = EmptyCheck
    /\ ~perm.call.ret

\* C19: for every authenticated user, a check that sets no role requirement
\* and no departmentSlug returns true, also when it sets only action.
C19_DefaultPermit ==
    (/\ Evaluated
     /\ Authenticated
     /\ ~SetsRoleRequirement(perm.call.check)
     /\ perm.call.check.departmentSlug = Absent)
        => perm.call.ret

\* A user without roles, departments or permissions passes the check that
\* sets only an action.
C19_Witness ==
    /\ Evaluated
    /\ perm.user.present
    /\ perm.user.roles = {}
    /\ perm.user.departments = {}
    /\ ~perm.user.permissions.defined
    /\ perm.call.check = [EmptyCheck EXCEPT !.action = "update"]
    /\ perm.call.ret

\* Two permission entries of one name and action.
SameNameAction(p, q) == p.name = q.name /\ p.action = q.action

\* The position in the input of the first entry with the name and action of p.
FirstSeen(input, p) ==
    CHOOSE k \in 1..Len(input) :
        /\ SameNameAction(input[k], p)
        /\ \A j \in 1..(k - 1) : ~SameNameAction(input[j], p)

\* snapshot is the input without its later entries of a name and action
\* already seen, in the input's order.
IsSnapshot(snapshot, input) ==
    /\ \A i, j \in 1..Len(snapshot) :
          i < j => ~SameNameAction(snapshot[i], snapshot[j])
    /\ \A k \in 1..Len(input) :
          \E i \in 1..Len(snapshot) : SameNameAction(snapshot[i], input[k])
    /\ \A i \in 1..Len(snapshot) :
          /\ \E k \in 1..Len(input) : SameNameAction(input[k], snapshot[i])
          /\ snapshot[i] = input[FirstSeen(input, snapshot[i])]
    /\ \A i, j \in 1..Len(snapshot) :
          i < j => FirstSeen(input, snapshot[i]) < FirstSeen(input, snapshot[j])

\* C20: the derived permission snapshot has no two entries of one
\* (name, action), retains for each (name, action) the first entry of the
\* input and keeps the retained entries in first-seen order; in both hooks.
C20_SnapshotDeduplicated ==
    /\ IsSnapshot(perm.userPermissions, perm.user.permissions.list)
    /\ perm.call.op = "getAllUserPermissions"
          => IsSnapshot(perm.call.list, perm.user.permissions.list)

\* Two entries of (cong-no, read) with different ids: both hooks keep the
\* first one only.
C20_Witness ==
    /\ perm.user.present
    /\ perm.user.permissions.defined
    /\ Len(perm.user.permissions.list) = 2
    /\ perm.user.permissions.list[1].id = 1
    /\ perm.user.permissions.list[2].id = 2
    /\ perm.userPermissions = <<perm.user.permissions.list[1]>>
    /\ perm.call.op = "getAllUserPermissions"
    /\ perm.call.list = <<perm.user.permissions.list[1]>>

\* Entries of different (name, action) keep the order of the input.
C20_WitnessOrder ==
    /\ perm.user.present
    /\ perm.user.permissions.defined
    /\ Len(perm.user.permissions.list) = 2
    /\ perm.user.permissions.list[1].id = 3
    /\ perm.user.permissions.list[2].id = 1
    /\ perm.userPermissions = perm.user.permissions.list

(***************************************************************************)
(* Properties of the guard's branches after a refresh and of its cookie    *)
(* writes.                                                                 *)
(***************************************************************************)
\* C24: after a successful refresh the guard continues at once: no
\* link-status override, no landing redirect and no authorization check is
\* applied to the refreshed session, so every non-public path is allowed in
\* that invocation, whatever roles or link status the old or the new token
\* carries.
C24_RefreshSkipsChecks ==
    \A p \in Procs :
        (Finished(p) /\ inv[p].calls = 1 /\ RefreshSucceeded(p))
            => /\ inv[p].resp.kind = "next"
               /\ inv[p].resp.location = None
               /\ inv[p].resp.callbackUrl = None

\* The refreshed token carries link status 2 and a role that does not open
\* /debt/manage, listed for admin only; the request to /debt/manage continues.
C24_Witness ==
    \E p \in Procs :
        /\ Finished(p)
        /\ inv[p].calls = 1
        /\ RefreshSucceeded(p)
        /\ inv[p].pathname = "/debt/manage"
        /\ inv[p].result.access_token.payload.zaloLinkStatus = [t |-> "number", v |-> 2]
        /\ "/debt/manage" \in TableUrls
        /\ ~PathOpenTo({"user-cong-no"}, "/debt/manage")
        /\ FirstOpenUrl({"user-cong-no"}) # None
        /\ inv[p].resp.kind = "next"

\* The branch of a finished invocation, told from its request and the answer
\* of the refresh endpoint.
RefreshSuccessBranch(p) ==
    /\ InvalidSession(p)
    /\ inv[p].pathname \notin publicPaths
    /\ inv[p].refreshToken # None
    /\ RefreshSucceeded(p)

LoginRedirectBranch(p) ==
    /\ InvalidSession(p)
    /\ inv[p].pathname \notin publicPaths
    /\ RefreshFailed(p)

\* C25: the guard changes cookies in two branches only: the refresh success
\* sets access_token, and refresh_token when the response holds one; the
\* login redirect deletes both.  Every other outcome leaves both cookies
\* unchanged, also an expired or undecodable token on /login.
C25_CookieFrame ==
    \A p \in Procs :
        Finished(p) =>
            IF RefreshSuccessBranch(p)
            THEN /\ inv[p].resp.access = [op |-> "set", value |-> inv[p].result.access_token]
                 /\ inv[p].resp.refresh =
                      IF inv[p].result.refresh_token # None
                      THEN [op |-> "set", value |-> inv[p].result.refresh_token]
                      ELSE KeepRefresh
            ELSE IF LoginRedirectBranch(p)
            THEN /\ inv[p].resp.access.op = "delete"
                 /\ inv[p].resp.refresh.op = "delete"
            ELSE /\ inv[p].resp.access = KeepAccess
                 /\ inv[p].resp.refresh = KeepRefresh

\* An undecodable token and a refresh_token cookie on /login: the request
\* continues and both cookies are left alone.
C25_Witness ==
    \E p \in Procs :
        /\ Finished(p)
        /\ inv[p].pathname = "/login"
        /\ inv[p].token.seg = "badjson"
        /\ inv[p].refreshToken # None
        /\ inv[p].resp.kind = "next"
        /\ inv[p].resp.access = KeepAccess
        /\ inv[p].resp.refresh = KeepRefresh

(***************************************************************************)
(* Redirect chains.  The browser follows a redirect of the guard with a    *)
(* request to its location; the token stays what it was.  The tables here  *)
(* may also list /dashboard, one of the guard's landing paths.             *)
(***************************************************************************)
ChainItemChoices ==
    NavItemChoices \cup { [url |-> "/dashboard", hasRoles |-> FALSE, roles |-> {}] }

ChainTables ==
    UNION { { << [items |-> SubSeq(s, 1, k)], [items |-> SubSeq(s, k + 1, Len(s))] >> :
                k \in 0..Len(s) } : s \in SeqsUpTo(ChainItemChoices, MaxNavItems) }

\* The browser requests the location of the redirect it got.
FollowRedirect(p) ==
    /\ inv[p].pc = "done"
    /\ inv[p].resp.kind = "redirect"
    /\ chain.hops < MaxHops
    /\ LET pathname == inv[p].resp.location
           token == jar.access_token
           refreshToken == jar.refresh_token
           d == DecodeBlock(token, now)
           r == SyncPart(d, pathname, refreshToken)
       IN  inv' = [inv EXCEPT ![p] =
                     [pc |-> r.pc, pathname |-> pathname, token |-> token,
                      refreshToken |-> refreshToken, at |-> now,
                      isValid |-> d.isValid, userRoles |-> d.userRoles,
                      zaloLinkStatus |-> d.zaloLinkStatus, threw |-> d.threw,
                      calls |-> IF r.pc = "fetch" THEN 1 ELSE 0,
                      result |-> NoResult, resp |-> r.resp]]
    /\ chain' = [hops |-> chain.hops + 1]
    /\ UNCHANGED <<navItems, jar, now, perm, doc, cb>>

\* The chain ends: the page is served, or the browser gives up on the
\* redirects.
ChainEnds(p) ==
    /\ inv[p].pc = "done"
    /\ inv[p].resp.kind # "redirect" \/ chain.hops = MaxHops
    /\ inv' = [inv EXCEPT ![p] = IdleInv]
    /\ chain' = NoChain
    /\ UNCHANGED <<navItems, jar, now, perm, doc, cb>>

ChainInit ==
    /\ navItems \in ChainTables
    /\ jar \in [access_token : Tokens \cup {NoToken}, refresh_token : {None, "rt1"}]
    /\ now = 1999
    /\ inv = [p \in Procs |-> IdleInv]
    /\ perm = NoPerm
    /\ chain = NoChain
    /\ doc = NoDocument
    /\ cb = NewBreaker(1)

ChainNext ==
    \/ \E pathname \in Paths : Request(1, pathname)
    \/ \E result \in RefreshResults : RefreshSettles(1, result)
    \/ FollowRedirect(1)
    \/ ChainEnds(1)

ChainSpec == ChainInit /\ [][ChainNext]_vars

\* The table lists none of '/', '/login' and '/dashboard'.
NoLandingUrlInTable == TableUrls \cap LandingPaths = {}

\* C23: for a fixed token and a table that lists none of '/', '/login' and
\* '/dashboard', following the guard's redirects from any path reaches a
\* continue after at most one redirect; there is no redirect loop.
C23_NoRedirectLoop ==
    NoLandingUrlInTable
        => /\ chain.hops <= 1
           /\ (Finished(1) /\ chain.hops = 1) => inv[1].resp.kind = "next"

\* A landing path was redirected to the first accessible page, which the
\* guard then serves.
C23_Witness ==
    /\ NoLandingUrlInTable
    /\ chain.hops = 1
    /\ Finished(1)
    /\ ValidToken(inv[1].token, inv[1].at)
    /\ inv[1].pathname \in TableUrls
    /\ inv[1].pathname = FirstOpenUrl(TokenRoles(inv[1].token))
    /\ inv[1].resp.kind = "next"

\* With /dashboard in the table the guard can redirect without end.
C23_LoopWithLandingUrl ==
    /\ ~NoLandingUrlInTable
    /\ chain.hops = MaxHops
    /\ Finished(1)
    /\ inv[1].resp.kind = "redirect"

(***************************************************************************)
(* Two invocations of one client.  Both read the cookies the browser holds *)
(* when their request leaves; the browser applies the cookie writes of a   *)
(* response when it arrives, in the order of arrival.  An invocation whose *)
(* response was applied stays in inv with pc "delivered".                  *)
(***************************************************************************)
RacePaths == {"/profile", "/login"}

\* Tokens without roles and link status: the race is about the session.
RaceJars ==
    { j \in [access_token : Tokens \cup {NoToken}, refresh_token : {None, "rt1"}] :
        /\ j.access_token.payload.roles.t = "absent"
        /\ j.access_token.payload.zaloLinkStatus.t = "absent" }

\* The browser receives the response of p and applies its cookie writes.
DeliverOnce(p) ==
    /\ inv[p].pc = "done"
    /\ jar' = [access_token |-> ApplyCookie(jar.access_token, inv[p].resp.access, NoToken),
               refresh_token |-> ApplyCookie(jar.refresh_token, inv[p].resp.refresh, None)]
    /\ inv' = [inv EXCEPT ![p].pc = "delivered"]
    /\ UNCHANGED <<navItems, now, perm, chain, doc, cb>>

RaceInit ==
    /\ navItems = <<[items |-> <<>>], [items |-> <<>>]>>
    /\ jar \in RaceJars
    /\ now = 1999
    /\ inv = [p \in Procs |-> IdleInv]
    /\ perm = NoPerm
    /\ chain = NoChain
    /\ doc = NoDocument
    /\ cb = NewBreaker(1)

RaceNext ==
    \/ \E p \in Procs, pathname \in RacePaths : Request(p, pathname)
    \/ \E p \in Procs, result \in RefreshResults : RefreshSettles(p, result)
    \/ \E p \in Procs : DeliverOnce(p)

RaceSpec == RaceInit /\ [][RaceNext]_vars

\* Invocation p issued a refresh call and its response was applied.
RefreshDelivered(p) == inv[p].pc = "delivered" /\ inv[p].calls = 1

\* The value of a cookie once a write of a response is applied to it.
Written(old, write, absent) ==
    CASE write.op = "set" -> write.value
      [] write.op = "delete" -> absent
      [] OTHER -> old

\* C26: overlapping invocations under an invalid session each issue their
\* own refresh call with the refresh token they read (nothing excludes or
\* merges them) and each applies its own cookie writes, so the cookies end
\* as the response applied last leaves them: after one success and one
\* failure, as the success set them or both deleted.
C26_RefreshRace ==
    /\ [](\A p \in Procs :
            (/\ inv[p].pc # "idle"
             /\ InvalidSession(p)
             /\ inv[p].pathname \notin publicPaths
             /\ inv[p].refreshToken # None)
                => inv[p].calls = 1)
    /\ [][\A p \in Procs :
            (inv[p].pc = "done" /\ inv'[p].pc = "delivered")
                => /\ jar'.access_token =
                        Written(jar.access_token, inv[p].resp.access, NoToken)
                   /\ jar'.refresh_token =
                        Written(jar.refresh_token, inv[p].resp.refresh, None)]_vars
    /\ [](\A p, q \in Procs :
            (/\ RefreshDelivered(p) /\ RefreshSucceeded(p)
             /\ RefreshDelivered(q) /\ RefreshFailed(q))
                => \/ jar = NoCookies
                   \/ jar.access_token = inv[p].result.access_token)

\* Both invocations sent the same refresh token; one refresh succeeded, the
\* other failed and its response came last: both cookies are gone.
C26_Witness ==
    \E p, q \in Procs :
        /\ RefreshDelivered(p) /\ RefreshSucceeded(p)
        /\ RefreshDelivered(q) /\ RefreshFailed(q)
        /\ inv[p].refreshToken = inv[q].refreshToken
        /\ jar = NoCookies

(***************************************************************************)
(* The department views and the two evaluators.                            *)
(***************************************************************************)
\* The slugs the user's manager- and user- roles name.
ConventionSlugs ==
    { Tail(role) : role \in { r \in perm.user.roles :
                                Len(r) >= 2 /\ r[1] \in {"manager", "user"} } }

\* C21: getAccessibleDepartments() returns, without duplicates, exactly the
\* explicit department slugs and the slug part of every role matching
\* ^(manager|user)-(.+)$; roles of any other prefix add nothing.
C21_AccessibleDepartments ==
    perm.call.op = "getAccessibleDepartments"
        => /\ \A i, j \in 1..Len(perm.call.departments) :
                 i # j => perm.call.departments[i] # perm.call.departments[j]
           /\ Elements(perm.call.departments)
                = perm.user.departments \cup ConventionSlugs

\* A member of cong-no holding manager-cong-no and lead-cong-no gets cong-no
\* once.
C21_Witness ==
    /\ perm.call.op = "getAccessibleDepartments"
    /\ perm.user.departments = {<<"cong", "no">>}
    /\ perm.user.roles = {<<"manager", "cong", "no">>, <<"lead", "cong", "no">>}
    /\ perm.call.departments = << <<"cong", "no">> >>

\* C27: for a non-admin authenticated user and a slug s,
\* checkDynamicPermission({departmentSlug: s}) is true exactly when s is in
\* getAccessibleDepartments().
C27_ViewsAgree ==
    \A s \in Slugs :
        (/\ Evaluated
         /\ Authenticated
         /\ ~HoldsAdmin
         /\ perm.call.check = [EmptyCheck EXCEPT !.departmentSlug = s])
            => (perm.call.ret
                  <=> s \in Elements(getAccessibleDepartments(perm.user)))

\* C28: for every user, none included, and every slug s and action a, the
\* legacy canAccess(s, a) equals checkDynamicPermission({departmentSlug: s,
\* action: a}); a manager-s or user-s role without a matching permission
\* grants nothing in either.
C28_EvaluatorsAgree ==
    /\ perm.call.op = "canAccess"
          => perm.call.ret = checkDynamicPermission(perm.user, perm.userPermissions,
                                                    perm.call.check)
    /\ \A s \in Slugs, a \in Actions :
          (Evaluated /\ perm.call.check = [EmptyCheck EXCEPT !.departmentSlug = s,
                                                             !.action = a])
              => /\ perm.call.ret = canAccess(perm.user, s, a)
                 /\ perm.call.ret => (HasGrant(s, a) \/ HoldsAdmin)
    /\ \A s \in Slugs, a \in Actions :
          (perm.call.op = "canAccess"
             /\ perm.call.check = [EmptyCheck EXCEPT !.departmentSlug = s,
                                                     !.action = a])
              => (perm.call.ret => (HasGrant(s, a) \/ HoldsAdmin))

\* The legacy evaluator refuses the read action to a holder of
\* manager-cong-no who has the update permission only.
C28_Witness ==
    /\ perm.call.op = "canAccess"
    /\ HoldsRole(<<"manager", "cong", "no">>)
    /\ ~HasGrant(<<"cong", "no">>, "read")
    /\ HasGrant(<<"cong", "no">>, "update")
    /\ perm.call.check.departmentSlug = <<"cong", "no">>
    /\ perm.call.check.action = "read"
    /\ ~perm.call.ret

(***************************************************************************)
(* The token store in use: the login flow stores a token, the logout       *)
(* clears it, any view reads it; in the browser, or in a server render     *)
(* where document is undefined.                                            *)
(***************************************************************************)
SetAccessToken(token) ==
    /\ doc' = [doc EXCEPT
                 !.cookies = IF doc.hasDocument
                             THEN AssignCookie(@, SetAccessTokenText(token))
                             ELSE @,
                 !.call = [op |-> "setAccessToken", arg |-> token, ret |-> Null],
                 !.stored = [op |-> "setAccessToken", arg |-> token, ret |-> Null]]
    /\ UNCHANGED <<navItems, jar, now, inv, perm, chain, cb>>

ClearAccessToken ==
    /\ doc' = [doc EXCEPT
                 !.cookies = IF doc.hasDocument
                             THEN AssignCookie(@, ClearAccessTokenText)
                             ELSE @,
                 !.call = [op |-> "clearAccessToken", arg |-> <<>>, ret |-> Null],
                 !.stored = [op |-> "clearAccessToken", arg |-> <<>>, ret |-> Null]]
    /\ UNCHANGED <<navItems, jar, now, inv, perm, chain, cb>>

GetAccessToken ==
    /\ doc' = [doc EXCEPT
                 !.call = [op |-> "getAccessToken", arg |-> <<>>,
                           ret |-> getAccessToken(doc)]]
    /\ UNCHANGED <<navItems, jar, now, inv, perm, chain, cb>>

StoreInit ==
    /\ navItems = <<[items |-> <<>>], [items |-> <<>>]>>
    /\ jar = NoCookies
    /\ now = 1999
    /\ inv = [p \in Procs |-> IdleInv]
    /\ perm = NoPerm
    /\ chain = NoChain
    /\ doc \in { [NoDocument EXCEPT !.hasDocument = h, !.cookies = o] :
                   h \in BOOLEAN, o \in OtherCookies }
    /\ cb = NewBreaker(1)

StoreNext ==
    \/ \E token \in TokenStrings : SetAccessToken(token)
    \/ ClearAccessToken
    \/ GetAccessToken

StoreSpec == StoreInit /\ [][StoreNext]_vars

\* getAccessToken() was called and returned.
Read == doc.call.op = "getAccessToken"

\* A cookie named exactly access_token is in the browser's store.
HasAccessTokenCookie ==
    \E i \in 1..Len(doc.cookies) : doc.cookies[i].name = AccessTokenName

\* The round trip of the store for a read.
RoundTrip ==
    /\ doc.stored.op = "setAccessToken" => doc.call.ret = String(doc.stored.arg)
    /\ doc.stored.op = "clearAccessToken" => doc.call.ret = Null
    /\ ~HasAccessTokenCookie => doc.call.ret = Null

\* C22 as stated: after setAccessToken(t), getAccessToken() returns t; after
\* clearAccessToken() it returns null; it returns null without raising
\* whenever no cookie named exactly access_token exists.
C22_RoundTrip == Read => RoundTrip

\* C22: where document is defined, after setAccessToken(t) getAccessToken()
\* returns t, after clearAccessToken() it returns null, and it returns null
\* whenever no cookie named exactly access_token exists; where document is
\* undefined, the writes do nothing and getAccessToken() returns null.
C22_RoundTripInBrowser ==
    Read => /\ doc.hasDocument => RoundTrip
            /\ ~doc.hasDocument => (doc.call.ret = Null /\ ~HasAccessTokenCookie)

\* A token of "=" and ";" comes back as stored, next to a cookie of another
\* name.
C22_Witness ==
    /\ Read
    /\ doc.hasDocument
    /\ Len(doc.cookies) = 2
    /\ doc.stored.op = "setAccessToken"
    /\ doc.stored.arg = <<"=", ";">>
    /\ doc.call.ret = String(<<"=", ";">>)

\* After a clear, next to a cookie named access_token_old, the read is null.
C22_WitnessCleared ==
    /\ Read
    /\ doc.hasDocument
    /\ doc.stored.op = "clearAccessToken"
    /\ Len(doc.cookies) = 1
    /\ doc.call.ret = Null

(***************************************************************************)
(* The circuit breaker in use: the page calls call(fn) when it mounts,     *)
(* when a filter changes and on a manual refresh; fn is the fetch of the   *)
(* statistics, which succeeds or fails; time passes in seconds.            *)
(***************************************************************************)
BreakerTick ==
    /\ cb.clock < MaxTicks * 1000
    /\ cb' = [cb EXCEPT !.clock = @ + 1000]
    /\ UNCHANGED <<navItems, jar, now, inv, perm, chain, doc>>

Call ==
    /\ Len(cb.running) < MaxCalls
    /\ cb' = CallStep(cb, cb.clock)
    /\ UNCHANGED <<navItems, jar, now, inv, perm, chain, doc>>

Settle(i, ok) ==
    /\ i \in 1..Len(cb.running)
    /\ cb' = SettleStep(cb, i, ok)
    /\ UNCHANGED <<navItems, jar, now, inv, perm, chain, doc>>

BreakerInit ==
    /\ navItems = <<[items |-> <<>>], [items |-> <<>>]>>
    /\ jar = NoCookies
    /\ now = 1999
    /\ inv = [p \in Procs |-> IdleInv]
    /\ perm = NoPerm
    /\ chain = NoChain
    /\ doc = NoDocument
    /\ cb \in { NewBreaker(version) : version \in Versions }

BreakerNext ==
    \/ BreakerTick
    \/ Call
    \/ \E i \in 1..MaxCalls, ok \in BOOLEAN : Settle(i, ok)

BreakerSpec == BreakerInit /\ [][BreakerNext]_vars

\* The wrapped function settles: the requests of the fetch are answered or
\* fail.
BreakerFairSpec ==
    /\ BreakerInit
    /\ [][BreakerNext]_vars
    /\ WF_vars(\E i \in 1..MaxCalls, ok \in BOOLEAN : Settle(i, ok))

\* C29: through one instance at most one wrapped function executes at a time:
\* a call made while another is in progress returns without invoking its
\* function, and the in-progress flag is cleared whenever a call settles, by
\* success or by failure, so no call blocks the later ones forever.
C29_OneCallAtATime ==
    /\ [](/\ Len(cb.running) <= 1
          /\ cb.isCallInProgress <=> Len(cb.running) = 1)
    /\ [][/\ (cb.isCallInProgress /\ cb'.last = "busy") => cb'.running = cb.running
          /\ Len(cb'.running) < Len(cb.running) => ~cb'.isCallInProgress]_vars
    /\ cb.isCallInProgress ~> ~cb.isCallInProgress

\* A call found another in progress and returned; one function is executing.
C29_Witness ==
    /\ cb.last = "busy"
    /\ cb.isCallInProgress
    /\ Len(cb.running) = 1

\* The step is a call(), told from the outcome it leaves in last.
CallTaken ==
    /\ cb' # cb
    /\ cb'.clock = cb.clock
    /\ cb'.last \in {"busy", "open", "invoked", "reset"}

\* The step is the settling of a call.
SettleTaken == Len(cb'.running) < Len(cb.running)

\* C30: the circuit opens exactly when the count of consecutive failed calls
\* reaches the threshold (2 in part_001, 3 in part_002); while it is open a
\* call made less than the cooldown (3000 ms, 10000 ms) after the recorded
\* last-failure time does not invoke its function; the first call after the
\* cooldown closes the circuit, resets the count to 0 and invokes its
\* function; every successful call resets the count to 0.
C30_BreakerProtocol ==
    /\ [](/\ cb.isOpen <=> cb.attempts >= Threshold(cb.version)
          /\ cb.isOpen => ~cb.isCallInProgress)
    /\ [][/\ (CallTaken /\ cb.isOpen
                /\ cb.clock - cb.lastFailure < Cooldown(cb.version))
               => /\ cb'.running = cb.running
                  /\ cb'.isOpen
                  /\ cb'.attempts = cb.attempts
          /\ (CallTaken /\ cb.isOpen
                /\ cb.clock - cb.lastFailure >= Cooldown(cb.version))
               => /\ ~cb'.isOpen
                  /\ cb'.attempts = 0
                  /\ cb'.running = Append(cb.running, cb.clock)
          /\ (SettleTaken /\ cb'.last = "success") => cb'.attempts = 0
          /\ (SettleTaken /\ cb'.last = "failure")
               => /\ cb'.attempts = cb.attempts + 1
                  /\ cb'.isOpen <=> cb.attempts + 1 >= Threshold(cb.version)]_vars

\* In part_002 the circuit opened after three failures and a call made
\* 10 s after the recorded failure closed it and invoked its function.
C30_Witness ==
    /\ cb.version = 2
    /\ cb.last = "reset"
    /\ ~cb.isOpen
    /\ cb.attempts = 0
    /\ cb.running = <<cb.lastFailure + 10000>>

====
